---- MODULE Spec2Model ----
(***************************************************************************)
(* The authentication module of the FixCity backend: the User model, the   *)
(* AuthService operations (register, login, refreshToken, logout,          *)
(* forgotPassword, resetPassword), the authenticate and authorize          *)
(* middleware, the responses of AuthController, the environment the        *)
(* process starts in and the serialization of user documents.              *)
(*                                                                         *)
(* Time is counted in units of ten minutes (the reset-token lifetime).     *)
(* The repository holds two definitions of AuthService; authServiceDef     *)
(* says which one the running build loaded.                                *)
(***************************************************************************)
EXTENDS Integers, Sequences, FiniteSets, TLC

VARIABLES
    db,             \* the users collection, in insertion order; _id = index
    now,            \* Date.now(), in units of ten minutes
    ticks,          \* how many times the clock has advanced
    nextToken,      \* how many reset tokens generateResetToken has produced
    authServiceDef, \* 1: first definition of AuthService, 2: second definition
    env,            \* process.env as config/env.js reads it when the process starts
    proc,           \* the server process: its database connection, its HTTP server, its exit
    last,           \* the last service call: its operation, arguments and outcome
    wrongRun,       \* per user: wrong-password logins since the last success, reset or creation
    reqs,           \* the requests in flight, one per connection
    spent,          \* the raw reset tokens a successful resetPassword has consumed
    held,           \* the JWTs the clients keep from the responses
    used,           \* the refresh tokens a successful refresh was called with
    loggedOut,      \* the JWTs whose owner called logout after they were issued
    outdated        \* the JWTs whose owner's password was reset after they were issued

\* what the clients keep and what they have done with it
sessions == <<held, used, loggedOut, outdated>>

vars == <<db, now, ticks, nextToken, authServiceDef, env, proc, last, wrongRun, reqs, spent, sessions>>

---------------------------------------------------------------------------
(* Bounds of the model *)

MaxTicks == 2
MaxTokens == 2
MaxLoginAttempts == 6
MaxReqs == 2
MaxRetries == 3

Emails == {"ana@x.com", "bob@x.com"}
Phones == {"+15551234567", "+15557654321"}
Passwords == {"Passw0rd!", "Hunter22!"}

\* the emails that register in the account-lifecycle specification (Spec);
\* every other email stays unknown to it
Registrants == {"ana@x.com"}
PhoneOf(email) == IF email = "ana@x.com" THEN "+15551234567" ELSE "+15557654321"

---------------------------------------------------------------------------
(* Program constants *)

maxAttempts == 5
lockTime == 12
resetExpiry == 1
\* JWT_EXPIRES_IN (7d in the README) and JWT_REFRESH_EXPIRES_IN (the 30 days
\* of the refreshToken cookie)
jwtExpiresIn == 1008
jwtRefreshExpiresIn == 4320

Roles == {"citizen", "admin", "operator"}

\* a variable the environment does not set
Unset == "undefined"

\* an environment with both secrets set; a secret is written as the name of
\* its variable
ConfiguredEnv ==
    [NODE_ENV |-> "development", JWT_SECRET |-> "JWT_SECRET",
     JWT_REFRESH_SECRET |-> "JWT_REFRESH_SECRET"]

\* a role field of the request body: absent, or one of the enum's values
RoleInputs == {"absent"} \cup Roles

NoTime == -1
NoHash == <<>>

EmailTaken == "El email ya esta registrado"
PhoneTaken == "El telefono ya esta registrado"
InvalidCredentials == "Credenciales invalidas"
AccountLocked == "Cuenta bloqueada temporalmente"
InvalidOrExpiredToken == "Token invalido o expirado"
DuplicateKey == "E11000 duplicate key error"
GenericForgotMessage == "Si el email existe, recibiras instrucciones para resetear tu contrasena"
TokenSentMessage == "Token de reset enviado al email"
PasswordUpdated == "Contrasena actualizada exitosamente"
MissingToken == "Token de acceso requerido"
InvalidUser == "Usuario no valido"
TokenExpired == "Token expirado"
InvalidToken == "Token invalido"
InvalidRefreshToken == "Refresh token invalido"
UserNotFound == "Usuario no encontrado"
LogoutDone == "Logout exitoso"
RegisterDone == "Usuario registrado exitosamente"
LoginDone == "Login exitoso"
RefreshRequired == "Refresh token requerido"
\* what reading req.cookies.refreshToken throws when no middleware parsed the cookies
CookiesUndefined == "Cannot read properties of undefined (reading 'refreshToken')"
\* the maxAge of the refreshToken cookie: 30 days, in units of ten minutes
cookieMaxAge == 4320
\* what a query rejects with while the database cannot be reached
QueryTimeout == "Operation users.findOne() buffering timed out after 10000ms"
Unauthenticated == "Usuario no autenticado"
Forbidden == "No tienes permisos para realizar esta accion"

---------------------------------------------------------------------------
(* The User schema *)

AllFields ==
    {"_id", "name", "email", "phone", "password", "role", "isActive",
     "isEmailVerified", "passwordResetToken", "passwordResetExpires",
     "lastLogin", "loginAttempts", "lockUntil"}

\* the paths declared select: false
SelectFalse == {"password", "passwordResetToken", "passwordResetExpires", "lockUntil"}

\* the paths that may be missing from a stored document
Optional == {"passwordResetToken", "passwordResetExpires", "lockUntil"}

\* the value a path reads as when it is undefined
Undefined(f) == IF f \in {"password", "passwordResetToken"} THEN NoHash ELSE NoTime

\* bcrypt.hash(password, salt), and the plaintext the hook receives
bcryptHash(pw) == <<"bcrypt12", pw>>
Plain(pw) == <<"plain", pw>>

\* a hashToken that hands the token back as it is
hashToken_plain(token) == <<"plain", token>>

\* crypto.createHash('sha256').update(token).digest('hex')
hashToken(token) == <<"sha256", token>>

\* new User({name, email, phone, password, role}) with the schema's defaults
NewUser(id, email, phone, password, role) ==
    [_id |-> id, name |-> "Ana", email |-> email, phone |-> phone,
     password |-> Plain(password), role |-> role,
     isActive |-> TRUE, isEmailVerified |-> TRUE,
     passwordResetToken |-> NoHash, passwordResetExpires |-> NoTime,
     lastLogin |-> NoTime, loginAttempts |-> 0, lockUntil |-> NoTime]

\* isLocked when login does not select +lockUntil: the path reads as undefined
isLocked_notSelected(user, t) == FALSE

\* isLocked with the comparison turned around
isLocked_inverted(user, t) == user.lockUntil # NoTime /\ user.lockUntil < t

\* the virtual isLocked
isLocked(user, t) == user.lockUntil # NoTime /\ user.lockUntil > t

\* comparePassword
comparePassword(user, candidate) ==
    IF user.password = NoHash THEN FALSE ELSE user.password = bcryptHash(candidate)

---------------------------------------------------------------------------
(* Documents in memory: the values read, the paths selected, the paths modified *)

\* a query result: select:false paths read as undefined unless selected with +path
Load(rec, plus) ==
    [vals |-> [f \in AllFields |->
                  IF f \in SelectFalse \ plus THEN Undefined(f) ELSE rec[f]],
     sel |-> (AllFields \ SelectFalse) \cup plus,
     mod |-> {}]

\* an assignment that marks a path modified only when the value read differs
ShouldModify_onlyChanges(doc, f, v) == v # doc.vals[f]

\* whether an assignment marks the path modified
ShouldModify(doc, f, v) ==
    \/ f \in Optional \cup {"password"} /\ v = Undefined(f) /\ f \notin doc.sel
    \/ v # doc.vals[f]

\* user.f = v
Assign(doc, f, v) ==
    IF ShouldModify(doc, f, v)
    THEN [doc EXCEPT !.vals[f] = v, !.mod = @ \cup {f}]
    ELSE doc

\* a pre('save') hook that stores the password as it came
PreSave_noHash(doc) == doc

\* a stored hash read as the string bcrypt.hash is given when it hashes again
HashString == "$2b$12$"

\* the pre('save') hook: a modified password is hashed, whatever it holds
PreSave(doc) ==
    IF "password" \in doc.mod
    THEN [doc EXCEPT !.vals["password"] =
                        bcryptHash(IF @[1] = "plain" THEN @[2] ELSE HashString)]
    ELSE doc

\* the stored document after save(): only the modified paths are written
Saved(rec, doc) ==
    [f \in AllFields |-> IF f \in doc.mod THEN PreSave(doc).vals[f] ELSE rec[f]]

\* the keys of the in-memory document that hold a value
PresentKeys(doc) ==
    {f \in AllFields : f \in doc.sel \cup doc.mod
                       /\ ~(f \in Optional /\ doc.vals[f] = Undefined(f))}

\* the toJSON transform of the schema: the keys of the serialized object
ToJSONDeleted == {"password", "emailVerificationToken", "passwordResetExpires", "lockUntil", "__v"}
ToJSON(doc) == PresentKeys(doc) \ ToJSONDeleted

---------------------------------------------------------------------------
(* Queries *)

Ids == DOMAIN db

Min(S) == CHOOSE x \in S : \A y \in S : x <= y

\* findOne: the first matching document's _id, 0 when none matches
FindByEmail(email) ==
    LET S == {i \in Ids : db[i].email = email} IN IF S = {} THEN 0 ELSE Min(S)

\* register without the phone lookup
FindByPhone_skipped(phone) == 0

FindByPhone(phone) ==
    LET S == {i \in Ids : db[i].phone = phone} IN IF S = {} THEN 0 ELSE Min(S)

\* a login lookup that does not ask for isActive
FindActiveByEmail_anyUser(email) == FindByEmail(email)

\* User.findOne({ email, isActive: true })
FindActiveByEmail(email) ==
    LET S == {i \in Ids : db[i].email = email /\ db[i].isActive}
    IN IF S = {} THEN 0 ELSE Min(S)

\* the reset-token lookup accepting a token at the instant it expires
FindByResetToken_atExpiry(hashed, t) ==
    LET S == {i \in Ids : /\ db[i].passwordResetToken = hashed
                          /\ db[i].passwordResetExpires # NoTime
                          /\ db[i].passwordResetExpires >= t}
    IN IF S = {} THEN 0 ELSE Min(S)

FindByResetToken(hashed, t) ==
    LET S == {i \in Ids : /\ db[i].passwordResetToken = hashed
                          /\ db[i].passwordResetExpires # NoTime
                          /\ db[i].passwordResetExpires > t}
    IN IF S = {} THEN 0 ELSE Min(S)

---------------------------------------------------------------------------
(* Tokens *)

\* what jwt.sign throws when it is given no secret
SecretMissing == "secretOrPrivateKey must have a value"

\* generateTokens(userId): the pair, or the error jwt.sign throws
generateTokens(userId, t) ==
    IF env.JWT_SECRET = Unset \/ env.JWT_REFRESH_SECRET = Unset
    THEN [error |-> SecretMissing]
    ELSE [accessToken |-> [secret |-> env.JWT_SECRET, userId |-> userId,
                           exp |-> t + jwtExpiresIn],
          refreshToken |-> [secret |-> env.JWT_REFRESH_SECRET, userId |-> userId,
                            exp |-> t + jwtRefreshExpiresIn]]

\* a verifyToken whose every failure is the generic one
verifyToken_generic(token, t) ==
    IF env.JWT_SECRET = Unset \/ token.secret # env.JWT_SECRET \/ t >= token.exp
    THEN [error |-> "JsonWebTokenError"]
    ELSE [userId |-> token.userId]

\* a verifyToken that checks the expiry and not the signature
verifyToken_anySecret(token, t) ==
    IF t >= token.exp THEN [error |-> "TokenExpiredError"]
    ELSE [userId |-> token.userId]

\* verifyToken(token): the decoded payload, or the error jwt.verify throws
verifyToken(token, t) ==
    IF env.JWT_SECRET = Unset \/ token.secret # env.JWT_SECRET THEN [error |-> "JsonWebTokenError"]
    ELSE IF t >= token.exp THEN [error |-> "TokenExpiredError"]
    ELSE [userId |-> token.userId]

\* the user object register and login return
UserPublic(user) ==
    [id |-> user._id, name |-> user.name, email |-> user.email,
     phone |-> user.phone, role |-> user.role,
     isEmailVerified |-> user.isEmailVerified]

\* getProfile passing the lock on
ProfileUser_withLock(user) ==
    [id |-> user._id, name |-> user.name, email |-> user.email,
     phone |-> user.phone, role |-> user.role,
     isEmailVerified |-> user.isEmailVerified, lastLogin |-> user.lastLogin,
     lockUntil |-> user.lockUntil]

\* the user object getProfile returns
ProfileUser(user) ==
    [id |-> user._id, name |-> user.name, email |-> user.email,
     phone |-> user.phone, role |-> user.role,
     isEmailVerified |-> user.isEmailVerified, lastLogin |-> user.lastLogin]

\* what register and login return once the user is saved, or the error
\* generateTokens throws
AuthResponse(user, t) ==
    LET tokens == generateTokens(user._id, t)
    IN IF "error" \in DOMAIN tokens THEN tokens
       ELSE [user |-> UserPublic(user), accessToken |-> tokens.accessToken,
             refreshToken |-> tokens.refreshToken]

Failure(msg) == [error |-> msg]

Failed(out) == "error" \in DOMAIN out

\* a service call together with what it returned or threw
Outcome(call, out) ==
    [f \in DOMAIN call \cup {"out"} |-> IF f = "out" THEN out ELSE call[f]]

---------------------------------------------------------------------------
(* AuthService: the login transitions *)

\* handleFailedLogin locking one attempt late
handleFailedLogin_late(user, t) ==
    LET counted == Assign(user, "loginAttempts", user.vals.loginAttempts + 1)
    IN IF counted.vals.loginAttempts > maxAttempts
       THEN Assign(counted, "lockUntil", t + lockTime)
       ELSE counted

\* handleFailedLogin that starts the count again once a lock has elapsed
handleFailedLogin_restart(user, t) ==
    IF user.vals.lockUntil # NoTime /\ user.vals.lockUntil <= t
    THEN Assign(Assign(user, "loginAttempts", 1), "lockUntil", NoTime)
    ELSE LET counted == Assign(user, "loginAttempts", user.vals.loginAttempts + 1)
         IN IF counted.vals.loginAttempts >= maxAttempts
            THEN Assign(counted, "lockUntil", t + lockTime)
            ELSE counted

handleFailedLogin(user, t) ==
    LET counted == Assign(user, "loginAttempts", user.vals.loginAttempts + 1)
    IN IF counted.vals.loginAttempts >= maxAttempts
       THEN Assign(counted, "lockUntil", t + lockTime)
       ELSE counted

\* handleSuccessfulLogin that forgets the counter
handleSuccessfulLogin_keepsCount(user, t) ==
    Assign(Assign(user, "lockUntil", NoTime), "lastLogin", t)

\* handleSuccessfulLogin that marks the password modified
handleSuccessfulLogin_rehash(user, t) ==
    [Assign(Assign(Assign(user, "loginAttempts", 0), "lockUntil", NoTime), "lastLogin", t)
        EXCEPT !.mod = @ \cup {"password"}]

handleSuccessfulLogin(user, t) ==
    Assign(Assign(Assign(user, "loginAttempts", 0), "lockUntil", NoTime), "lastLogin", t)

\* the role register gives the new user: the first definition reads role from
\* the request body, the second leaves it to the schema default
RegisterRole(def, roleIn) ==
    IF def = 1 /\ roleIn # "absent" THEN roleIn ELSE "citizen"

\* a freshly constructed document: every path is new
NewDoc(user) == [vals |-> user, sel |-> AllFields, mod |-> AllFields]

\* the n-th value generateResetToken returns
generateResetToken(n) == n

Bump(n) == IF n < maxAttempts THEN n + 1 ELSE n

---------------------------------------------------------------------------
(* AuthService: the operations, each handler as one step *)

\* the exit code of a process that is running
NoExit == -1

\* config/database.js and server.js as imported: connectionState, the state of
\* mongoose.connection, no call of ensureConnection yet, no HTTP server
FreshProcess ==
    [isConnected |-> FALSE, readyState |-> 0,
     pc |-> "idle", maxRetries |-> 0, retries |-> 0, connects |-> 0, waits |-> 0,
     result |-> "none", server |-> "none", exit |-> NoExit, signal |-> "none"]

\* the state of a process that has just started, whatever its environment
Boot ==
    /\ proc = FreshProcess
    /\ db = <<>>
    /\ now = 0
    /\ ticks = 0
    /\ nextToken = 0
    /\ authServiceDef \in {1, 2}
    /\ last = [op |-> "none", out |-> [message |-> "none"]]
    /\ wrongRun = <<>>
    /\ reqs = [s \in 1..MaxReqs |-> [pc |-> "idle"]]
    /\ spent = {}
    /\ held = {}
    /\ used = {}
    /\ loggedOut = {}
    /\ outdated = {}

Init == env = ConfiguredEnv /\ Boot

Register(email, phone, password, roleIn) ==
    LET id == Len(db) + 1
        user == NewDoc(NewUser(id, email, phone, password,
                               RegisterRole(authServiceDef, roleIn)))
        stored == Saved(user.vals, user)
        call == [op |-> "register"]
    IN /\ IF FindByEmail(email) # 0
          THEN /\ last' = Outcome(call, Failure(EmailTaken))
               /\ UNCHANGED <<db, wrongRun>>
          ELSE IF FindByPhone(phone) # 0
          THEN /\ last' = Outcome(call, Failure(PhoneTaken))
               /\ UNCHANGED <<db, wrongRun>>
          ELSE /\ db' = Append(db, stored)
               /\ wrongRun' = Append(wrongRun, 0)
               /\ last' = Outcome(call, AuthResponse(stored, now))
       /\ UNCHANGED <<now, ticks, nextToken, authServiceDef, env, proc, spent, reqs>>

Login(email, password) ==
    LET id == FindActiveByEmail(email)
        call == [op |-> "login", email |-> email, password |-> password,
                 attempts |-> IF id = 0 THEN 0 ELSE db[id].loginAttempts]
    IN /\ IF id = 0
          THEN /\ last' = Outcome(call, Failure(InvalidCredentials))
               /\ UNCHANGED <<db, wrongRun>>
          ELSE LET user == Load(db[id], {"password", "lockUntil"})
                   good == comparePassword(user.vals, password)
               IN IF isLocked(user.vals, now)
                  THEN /\ last' = Outcome(call, Failure(AccountLocked))
                       /\ wrongRun' = IF good THEN wrongRun
                                      ELSE [wrongRun EXCEPT ![id] = Bump(@)]
                       /\ UNCHANGED db
                  ELSE IF ~good
                  THEN LET failed == handleFailedLogin(user, now)
                       IN /\ user.vals.loginAttempts < MaxLoginAttempts
                          /\ db' = [db EXCEPT ![id] = Saved(@, failed)]
                          /\ wrongRun' = [wrongRun EXCEPT ![id] = Bump(@)]
                          /\ last' = Outcome(call, Failure(InvalidCredentials))
                  ELSE LET ok == handleSuccessfulLogin(user, now)
                       IN /\ db' = [db EXCEPT ![id] = Saved(@, ok)]
                          /\ wrongRun' = [wrongRun EXCEPT ![id] = 0]
                          /\ last' = Outcome(call, AuthResponse(ok.vals, now))
       /\ UNCHANGED <<now, ticks, nextToken, authServiceDef, env, proc, spent, reqs>>

ForgotPassword(email) ==
    LET id == FindActiveByEmail(email)
        call == [op |-> "forgotPassword", email |-> email]
    IN IF id = 0
       THEN /\ last' = Outcome(call, [message |-> GenericForgotMessage])
            /\ UNCHANGED <<db, now, ticks, nextToken, authServiceDef, env, proc, spent, wrongRun, reqs>>
       ELSE LET resetToken == generateResetToken(nextToken + 1)
                user == Assign(Assign(Load(db[id], {}),
                                      "passwordResetToken", hashToken(resetToken)),
                               "passwordResetExpires", now + resetExpiry)
            IN /\ nextToken < MaxTokens
               /\ nextToken' = nextToken + 1
               /\ db' = [db EXCEPT ![id] = Saved(@, user)]
               /\ last' = Outcome(call, [message |-> TokenSentMessage,
                                               resetToken |-> resetToken])
               /\ UNCHANGED <<now, ticks, authServiceDef, env, proc, spent, wrongRun, reqs>>

ResetPassword(token, newPassword) ==
    LET id == FindByResetToken(hashToken(token), now)
        call == [op |-> "resetPassword", token |-> token]
    IN /\ IF id = 0
          THEN /\ last' = Outcome(call, Failure(InvalidOrExpiredToken))
               /\ UNCHANGED <<db, wrongRun>>
          ELSE LET user ==
                     Assign(Assign(Assign(Assign(Assign(Load(db[id], {}),
                         "password", Plain(newPassword)),
                         "passwordResetToken", NoHash),
                         "passwordResetExpires", NoTime),
                         "loginAttempts", 0),
                         "lockUntil", NoTime)
               IN /\ db' = [db EXCEPT ![id] = Saved(@, user)]
                  /\ wrongRun' = [wrongRun EXCEPT ![id] = 0]
                  /\ last' = Outcome([op |-> "resetPassword", token |-> token,
                                      id |-> id, password |-> newPassword,
                                      locked |-> isLocked(db[id], now)],
                                     [message |-> PasswordUpdated])
       /\ UNCHANGED <<now, ticks, nextToken, authServiceDef, env, proc, reqs>>

\* GET /profile with the access token the last call returned: authenticate,
\* then getProfile
GetProfile ==
    /\ "accessToken" \in DOMAIN last.out
    /\ LET decoded == verifyToken(last.out.accessToken, now)
       IN IF Failed(decoded)
          THEN last' = [op |-> "profile",
                        out |-> Failure(IF decoded.error = "TokenExpiredError"
                                        THEN TokenExpired ELSE InvalidToken)]
          ELSE IF decoded.userId \notin Ids \/ ~db[decoded.userId].isActive
          THEN last' = [op |-> "profile", out |-> Failure(InvalidUser)]
          ELSE last' = [op |-> "profile",
                        out |-> [user |-> ProfileUser(Load(db[decoded.userId], {}).vals)]]
    /\ UNCHANGED <<db, now, ticks, nextToken, authServiceDef, env, proc, spent, wrongRun, reqs>>

\* administrative deactivation and reactivation of an account (outside the service)
SetActive(id, active) ==
    /\ db[id].isActive # active
    /\ db' = [db EXCEPT ![id].isActive = active]
    /\ last' = [op |-> "setActive", out |-> [message |-> "ok"]]
    /\ UNCHANGED <<now, ticks, nextToken, authServiceDef, env, proc, spent, wrongRun, reqs>>

\* time passes
Tick(d) ==
    /\ ticks < MaxTicks
    /\ now' = now + d
    /\ ticks' = ticks + 1
    /\ UNCHANGED <<db, nextToken, authServiceDef, env, proc, spent, last, wrongRun, reqs>>

\* the account lifecycle: one handler at a time, the clients keeping only
\* the last response
Next ==
    \/ /\ \E e \in Registrants, pw \in Passwords : Register(e, PhoneOf(e), pw, "absent")
       /\ UNCHANGED sessions
    \/ /\ \E e \in Emails, pw \in Passwords : Login(e, pw)
       /\ UNCHANGED sessions
    \/ /\ \E e \in Emails : ForgotPassword(e)
       /\ UNCHANGED sessions
    \/ /\ \E t \in 1..MaxTokens, pw \in Passwords : ResetPassword(t, pw)
       /\ UNCHANGED <<sessions, spent>>
    \/ /\ GetProfile
       /\ UNCHANGED sessions
    \/ /\ \E id \in Ids, a \in BOOLEAN : SetActive(id, a)
       /\ UNCHANGED sessions
    \/ /\ \E d \in {resetExpiry, lockTime} : Tick(d)
       /\ UNCHANGED sessions

Spec == Init /\ [][Next]_vars

---------------------------------------------------------------------------
(* Registration alone, with every input of the request body *)

RegNext ==
    /\ \E e \in Emails, p \in Phones, pw \in Passwords, r \in RoleInputs :
          Register(e, p, pw, r)
    /\ UNCHANGED sessions

RegSpec == Init /\ [][RegNext]_vars

---------------------------------------------------------------------------
(* The password reset flow of one account, with the history of the tokens  *)
(* that were consumed                                                      *)

\* the observer notes the token of a resetPassword that has just succeeded
Spend ==
    spent' = IF last'.op = "resetPassword" /\ ~Failed(last'.out)
             THEN spent \cup {last'.token} ELSE spent

ResetNext ==
    \/ /\ \E e \in Registrants : Register(e, PhoneOf(e), "Passw0rd!", "absent")
       /\ UNCHANGED sessions
    \/ /\ \E e \in Registrants, pw \in Passwords : Login(e, pw)
       /\ UNCHANGED sessions
    \/ /\ \E e \in Emails : ForgotPassword(e)
       /\ UNCHANGED sessions
    \/ /\ \E t \in 1..MaxTokens, pw \in Passwords : ResetPassword(t, pw)
       /\ Spend
       /\ UNCHANGED sessions
    \/ /\ \E id \in Ids, a \in BOOLEAN : SetActive(id, a)
       /\ UNCHANGED sessions
    \/ /\ Tick(resetExpiry)
       /\ UNCHANGED sessions

ResetSpec == Init /\ [][ResetNext]_vars

---------------------------------------------------------------------------
(* Concurrent register requests: each await of the handler is one step *)

\* the users collection enforces the unique index on email, and only that one
UniqueIndexAllows(user) == \A i \in Ids : db[i].email # user.email

\* await User.findOne({ email })
RegFindEmail(s, email, phone, password, roleIn) ==
    /\ reqs[s].pc = "idle"
    /\ IF FindByEmail(email) # 0
       THEN /\ last' = [op |-> "register", out |-> Failure(EmailTaken)]
            /\ UNCHANGED reqs
       ELSE /\ reqs' = [reqs EXCEPT ![s] =
                           [pc |-> "findPhone", email |-> email, phone |-> phone,
                            password |-> password, role |-> roleIn]]
            /\ UNCHANGED last
    /\ UNCHANGED <<db, now, ticks, nextToken, authServiceDef, env, proc, spent, wrongRun>>

\* await User.findOne({ phone })
RegFindPhone(s) ==
    /\ reqs[s].pc = "findPhone"
    /\ IF FindByPhone(reqs[s].phone) # 0
       THEN /\ last' = [op |-> "register", out |-> Failure(PhoneTaken)]
            /\ reqs' = [reqs EXCEPT ![s] = [pc |-> "idle"]]
       ELSE /\ reqs' = [reqs EXCEPT ![s].pc = "save"]
            /\ UNCHANGED last
    /\ UNCHANGED <<db, now, ticks, nextToken, authServiceDef, env, proc, spent, wrongRun>>

\* await user.save(), then the tokens and the response
RegSave(s) ==
    /\ reqs[s].pc = "save"
    /\ LET r == reqs[s]
           user == NewDoc(NewUser(Len(db) + 1, r.email, r.phone, r.password,
                                  RegisterRole(authServiceDef, r.role)))
           stored == Saved(user.vals, user)
       IN IF UniqueIndexAllows(stored)
          THEN /\ db' = Append(db, stored)
               /\ wrongRun' = Append(wrongRun, 0)
               /\ last' = [op |-> "register", out |-> AuthResponse(stored, now)]
          ELSE /\ last' = [op |-> "register", out |-> Failure(DuplicateKey)]
               /\ UNCHANGED <<db, wrongRun>>
    /\ reqs' = [reqs EXCEPT ![s] = [pc |-> "idle"]]
    /\ UNCHANGED <<now, ticks, nextToken, authServiceDef, env, proc, spent>>

ConcNext ==
    \/ /\ \E s \in 1..MaxReqs, e \in Emails, p \in Phones :
             RegFindEmail(s, e, p, "Passw0rd!", "absent")
       /\ UNCHANGED sessions
    \/ /\ \E s \in 1..MaxReqs : RegFindPhone(s)
       /\ UNCHANGED sessions
    \/ /\ \E s \in 1..MaxReqs : RegSave(s)
       /\ UNCHANGED sessions

ConcSpec == Init /\ [][ConcNext]_vars

---------------------------------------------------------------------------
(* Concurrent requests of every kind: a handler runs up to its await of    *)
(* save() in one step, and the write of the save is a step of its own      *)

\* forgotPassword setting the token hash and leaving the expiry for later
WithResetToken_hashOnly(user, resetToken, t) ==
    Assign(user, "passwordResetToken", hashToken(resetToken))

\* user.passwordResetToken = hashedToken; user.passwordResetExpires = Date.now() + 10 min
WithResetToken(user, resetToken, t) ==
    Assign(Assign(user, "passwordResetToken", hashToken(resetToken)),
           "passwordResetExpires", t + resetExpiry)

\* forgotPassword up to await user.save()
ForgotFind(s, email) ==
    /\ reqs[s].pc = "idle"
    /\ LET id == FindActiveByEmail(email)
           resetToken == generateResetToken(nextToken + 1)
       IN IF id = 0
          THEN /\ last' = [op |-> "forgotPassword",
                           out |-> [message |-> GenericForgotMessage]]
               /\ UNCHANGED <<reqs, nextToken>>
          ELSE /\ nextToken < MaxTokens
               /\ nextToken' = nextToken + 1
               /\ reqs' = [reqs EXCEPT ![s] =
                              [pc |-> "forgotSave", id |-> id, token |-> resetToken,
                               doc |-> WithResetToken(Load(db[id], {}), resetToken, now)]]
               /\ UNCHANGED last
    /\ UNCHANGED <<db, now, ticks, authServiceDef, env, proc, spent, wrongRun>>

\* the save of forgotPassword, then its result
ForgotSave(s) ==
    /\ reqs[s].pc = "forgotSave"
    /\ db' = [db EXCEPT ![reqs[s].id] = Saved(@, reqs[s].doc)]
    /\ last' = [op |-> "forgotPassword",
                out |-> [message |-> TokenSentMessage, resetToken |-> reqs[s].token]]
    /\ reqs' = [reqs EXCEPT ![s] = [pc |-> "idle"]]
    /\ UNCHANGED <<now, ticks, nextToken, authServiceDef, env, proc, spent, wrongRun>>

\* resetPassword up to await user.save()
ResetFind(s, token, newPassword) ==
    /\ reqs[s].pc = "idle"
    /\ LET id == FindByResetToken(hashToken(token), now)
       IN IF id = 0
          THEN /\ last' = [op |-> "resetPassword",
                           out |-> Failure(InvalidOrExpiredToken)]
               /\ UNCHANGED reqs
          ELSE /\ reqs' = [reqs EXCEPT ![s] =
                              [pc |-> "resetSave", id |-> id, token |-> token,
                               doc |-> Assign(Assign(Assign(Assign(Assign(
                                           Load(db[id], {}),
                                           "password", Plain(newPassword)),
                                           "passwordResetToken", NoHash),
                                           "passwordResetExpires", NoTime),
                                           "loginAttempts", 0),
                                           "lockUntil", NoTime)]]
               /\ UNCHANGED last
    /\ UNCHANGED <<db, now, ticks, nextToken, authServiceDef, env, proc, spent, wrongRun>>

\* the save of resetPassword, then its result
ResetSave(s) ==
    /\ reqs[s].pc = "resetSave"
    /\ db' = [db EXCEPT ![reqs[s].id] = Saved(@, reqs[s].doc)]
    /\ last' = [op |-> "resetPassword", out |-> [message |-> PasswordUpdated]]
    /\ reqs' = [reqs EXCEPT ![s] = [pc |-> "idle"]]
    /\ UNCHANGED <<now, ticks, nextToken, authServiceDef, env, proc, wrongRun>>

\* login up to the await of save() in handleFailedLogin or handleSuccessfulLogin
LoginFind(s, email, password) ==
    /\ reqs[s].pc = "idle"
    /\ LET id == FindActiveByEmail(email)
       IN IF id = 0
          THEN /\ last' = [op |-> "login", out |-> Failure(InvalidCredentials)]
               /\ UNCHANGED reqs
          ELSE LET user == Load(db[id], {"password", "lockUntil"})
                   good == comparePassword(user.vals, password)
               IN IF isLocked(user.vals, now)
                  THEN /\ last' = [op |-> "login", out |-> Failure(AccountLocked)]
                       /\ UNCHANGED reqs
                  ELSE /\ good \/ user.vals.loginAttempts < MaxLoginAttempts
                       /\ reqs' = [reqs EXCEPT ![s] =
                                      [pc |-> "loginSave", id |-> id, good |-> good,
                                       doc |-> IF good
                                               THEN handleSuccessfulLogin(user, now)
                                               ELSE handleFailedLogin(user, now)]]
                       /\ UNCHANGED last
    /\ UNCHANGED <<db, now, ticks, nextToken, authServiceDef, env, proc, spent>>

\* a save of the login transition that adds one to the stored counter
LoginSave_increment(s) ==
    /\ reqs[s].pc = "loginSave"
    /\ db' = [db EXCEPT ![reqs[s].id] =
                 IF reqs[s].good THEN Saved(@, reqs[s].doc)
                 ELSE [Saved(@, reqs[s].doc) EXCEPT
                          !.loginAttempts = db[reqs[s].id].loginAttempts + 1]]
    /\ last' = [op |-> "login",
                out |-> IF reqs[s].good
                        THEN AuthResponse(reqs[s].doc.vals, now)
                        ELSE Failure(InvalidCredentials)]
    /\ reqs' = [reqs EXCEPT ![s] = [pc |-> "idle"]]
    /\ UNCHANGED <<now, ticks, nextToken, authServiceDef, env, proc, spent>>

\* the save of the login transition, then the result of login
LoginSave(s) ==
    /\ reqs[s].pc = "loginSave"
    /\ db' = [db EXCEPT ![reqs[s].id] = Saved(@, reqs[s].doc)]
    /\ last' = [op |-> "login",
                out |-> IF reqs[s].good
                        THEN AuthResponse(reqs[s].doc.vals, now)
                        ELSE Failure(InvalidCredentials)]
    /\ reqs' = [reqs EXCEPT ![s] = [pc |-> "idle"]]
    /\ UNCHANGED <<now, ticks, nextToken, authServiceDef, env, proc, spent>>

FlowNext ==
    \/ /\ \E s \in 1..MaxReqs, e \in Registrants :
             RegFindEmail(s, e, PhoneOf(e), "Passw0rd!", "absent")
       /\ UNCHANGED sessions
    \/ /\ \E s \in 1..MaxReqs : RegFindPhone(s)
       /\ UNCHANGED sessions
    \/ /\ \E s \in 1..MaxReqs : RegSave(s)
       /\ UNCHANGED sessions
    \/ /\ \E s \in 1..MaxReqs, e \in Emails : ForgotFind(s, e)
       /\ UNCHANGED sessions
    \/ /\ \E s \in 1..MaxReqs : ForgotSave(s)
       /\ UNCHANGED sessions
    \/ /\ \E s \in 1..MaxReqs, t \in 1..MaxTokens, pw \in Passwords : ResetFind(s, t, pw)
       /\ UNCHANGED sessions
    \/ /\ \E s \in 1..MaxReqs : ResetSave(s)
       /\ UNCHANGED <<sessions, spent>>
    \/ /\ \E s \in 1..MaxReqs, e \in Emails, pw \in Passwords : LoginFind(s, e, pw)
       /\ UNCHANGED <<sessions, wrongRun>>
    \/ /\ \E s \in 1..MaxReqs : LoginSave(s)
       /\ UNCHANGED <<sessions, wrongRun>>

FlowSpec == Init /\ [][FlowNext]_vars

---------------------------------------------------------------------------
(* Concurrent resetPassword requests, with the record of the reset tokens  *)
(* that were consumed                                                      *)

\* the observer notes the token of the resetPassword whose save has just returned
Consumed(s) == spent' = spent \cup {reqs[s].token}

TwiceNext ==
    \/ /\ \E e \in Registrants : Register(e, PhoneOf(e), "Passw0rd!", "absent")
       /\ UNCHANGED sessions
    \/ /\ \E e \in Emails : ForgotPassword(e)
       /\ UNCHANGED sessions
    \/ /\ \E s \in 1..MaxReqs, t \in 1..MaxTokens, pw \in Passwords : ResetFind(s, t, pw)
       /\ UNCHANGED sessions
    \/ /\ \E s \in 1..MaxReqs : ResetSave(s) /\ Consumed(s)
       /\ UNCHANGED sessions
    \/ /\ Tick(resetExpiry)
       /\ UNCHANGED sessions

TwiceSpec == Init /\ [][TwiceNext]_vars

---------------------------------------------------------------------------
(* Concurrent logins to one account, with the count of the wrong passwords *)
(* login has compared since the last successful login                      *)

\* the observer counts a login that reaches comparePassword with a wrong password
Compared(email, password) ==
    LET id == FindActiveByEmail(email)
        counted == IF id = 0 THEN FALSE
                   ELSE LET user == Load(db[id], {"password", "lockUntil"}).vals
                        IN ~isLocked(user, now) /\ ~comparePassword(user, password)
    IN wrongRun' = IF counted THEN [wrongRun EXCEPT ![id] = @ + 1] ELSE wrongRun

\* the observer starts again when a successful login is saved
Cleared(s) ==
    wrongRun' = IF reqs[s].good THEN [wrongRun EXCEPT ![reqs[s].id] = 0] ELSE wrongRun

RaceNext ==
    \/ /\ \E e \in Registrants : Register(e, PhoneOf(e), "Passw0rd!", "absent")
       /\ UNCHANGED sessions
    \/ /\ \E s \in 1..MaxReqs, e \in Registrants, pw \in Passwords :
             LoginFind(s, e, pw) /\ Compared(e, pw)
       /\ UNCHANGED sessions
    \/ /\ \E s \in 1..MaxReqs : LoginSave(s) /\ Cleared(s)
       /\ UNCHANGED sessions

RaceSpec == Init /\ [][RaceNext]_vars

---------------------------------------------------------------------------
(* Sessions: refresh, logout and the authentication middleware, with the   *)
(* clients keeping every token they were sent                              *)

\* an id that resolves to no document: a user removed from the collection by hand
RemovedId == Cardinality(Emails) + 1

\* a string that is no JWT, a JWT signed with a secret of the sender's own, and
\* the tokens a removed user was sent at time 0
NotAJwt == [secret |-> "none", userId |-> 0, exp |-> 0]
Forged == [secret |-> "SENDERS_OWN_SECRET", userId |-> 1,
           exp |-> (MaxTicks + 1) * jwtRefreshExpiresIn]
Orphaned == IF Failed(generateTokens(RemovedId, 0)) THEN {}
            ELSE {generateTokens(RemovedId, 0).accessToken,
                  generateTokens(RemovedId, 0).refreshToken}

\* what a client can send where a token is expected
Presented == held \cup {NotAJwt, Forged} \cup Orphaned

\* the Authorization header of a request: absent, or a scheme and a token
Headers ==
    {<<"absent", NotAJwt>>} \cup {<<s, tok>> : s \in {"Basic", "Bearer"}, tok \in Presented}

\* User.findById: the _id, 0 when no document has it
FindById(id) == IF id \in Ids THEN id ELSE 0

\* a verifyRefreshToken that does not look at the expiry
verifyRefreshToken_noExpiry(token, t) ==
    IF env.JWT_REFRESH_SECRET = Unset \/ token.secret # env.JWT_REFRESH_SECRET
    THEN [error |-> "JsonWebTokenError"]
    ELSE [userId |-> token.userId]

\* verifyRefreshToken(token): the decoded payload, or the error jwt.verify throws
verifyRefreshToken(token, t) ==
    IF env.JWT_REFRESH_SECRET = Unset \/ token.secret # env.JWT_REFRESH_SECRET
    THEN [error |-> "JsonWebTokenError"]
    ELSE IF t >= token.exp THEN [error |-> "TokenExpiredError"]
    ELSE [userId |-> token.userId]

\* the client stores the tokens of the response it has just received
Keep ==
    /\ held' = held \cup (IF "refreshToken" \in DOMAIN last'.out
                          THEN {last'.out.accessToken, last'.out.refreshToken}
                          ELSE {})
    /\ UNCHANGED <<used, loggedOut, outdated>>

\* AuthService.refreshToken; the first definition of AuthService does not
\* import verifyRefreshToken, so the call throws a ReferenceError there
Refresh(token) ==
    LET decoded == IF authServiceDef = 1 THEN [error |-> "ReferenceError"]
                   ELSE verifyRefreshToken(token, now)
        call == [op |-> "refresh", token |-> token]
        valid == IF Failed(decoded) THEN FALSE
                 ELSE IF FindById(decoded.userId) = 0 THEN FALSE
                 ELSE db[decoded.userId].isActive
        caught == IF ~valid THEN TRUE
                  ELSE Failed(generateTokens(decoded.userId, now))
    IN /\ IF caught
          THEN /\ last' = Outcome(call, Failure(InvalidRefreshToken))
               /\ UNCHANGED <<held, used>>
          ELSE LET tokens == generateTokens(decoded.userId, now)
               IN /\ last' = Outcome(call, tokens)
                  /\ held' = held \cup {tokens.accessToken, tokens.refreshToken}
                  /\ used' = used \cup {token}
       /\ UNCHANGED <<db, now, ticks, nextToken, authServiceDef, env, proc, spent, wrongRun,
                      reqs, loggedOut, outdated>>

\* a logout that deactivates the account
Logout_deactivating(userId) ==
    /\ FindById(userId) # 0
    /\ db' = [db EXCEPT ![userId].isActive = FALSE]
    /\ last' = [op |-> "logout", userId |-> userId, out |-> [message |-> LogoutDone]]
    /\ loggedOut' = loggedOut \cup {tok \in held : tok.userId = userId}
    /\ UNCHANGED <<now, ticks, nextToken, authServiceDef, env, proc, spent, wrongRun, reqs,
                   held, used, outdated>>

\* AuthService.logout
Logout(userId) ==
    /\ IF FindById(userId) # 0
       THEN /\ last' = [op |-> "logout", userId |-> userId,
                        out |-> [message |-> LogoutDone]]
            /\ loggedOut' = loggedOut \cup {tok \in held : tok.userId = userId}
       ELSE /\ last' = [op |-> "logout", userId |-> userId,
                        out |-> Failure(UserNotFound)]
            /\ UNCHANGED loggedOut
    /\ UNCHANGED <<db, now, ticks, nextToken, authServiceDef, env, proc, spent, wrongRun, reqs,
                   held, used, outdated>>

\* res.status(401).json({ error }): one response, the handler not called
Rejected(msg) == [next |-> 0, sent |-> 1, status |-> 401, error |-> msg]

\* res.status(401).json({ error: 'Token expirado', code: 'TOKEN_EXPIRED' })
RejectedExpired ==
    [next |-> 0, sent |-> 1, status |-> 401, error |-> TokenExpired,
     code |-> "TOKEN_EXPIRED"]

\* what the catch block of authenticate sends for the error it caught
Caught(error) == IF error = "TokenExpiredError" THEN RejectedExpired
                 ELSE Rejected(InvalidToken)

\* an authenticate that takes the token of any scheme
authenticate_anyScheme(header, t) ==
    IF header[1] = "absent" THEN Rejected(MissingToken)
    ELSE LET decoded == verifyToken(header[2], t)
         IN IF Failed(decoded)
            THEN Caught(decoded.error)
            ELSE IF FindById(decoded.userId) = 0 THEN Rejected(InvalidUser)
            ELSE IF ~db[decoded.userId].isActive THEN Rejected(InvalidUser)
            ELSE [next |-> 1, sent |-> 0, user |-> Load(db[decoded.userId], {}).vals]

\* the middleware authenticate: what it did with the request
authenticate(header, t) ==
    IF header[1] # "Bearer" THEN Rejected(MissingToken)
    ELSE LET decoded == verifyToken(header[2], t)
         IN IF Failed(decoded)
            THEN Caught(decoded.error)
            ELSE IF FindById(decoded.userId) = 0 THEN Rejected(InvalidUser)
            ELSE IF ~db[decoded.userId].isActive THEN Rejected(InvalidUser)
            ELSE [next |-> 1, sent |-> 0, user |-> Load(db[decoded.userId], {}).vals]

\* a request to a protected route passing through authenticate
Authenticate(header) ==
    /\ last' = [op |-> "authenticate", header |-> header,
                out |-> authenticate(header, now)]
    /\ UNCHANGED <<db, now, ticks, nextToken, authServiceDef, env, proc, spent, wrongRun, reqs,
                   sessions>>

SessionNext ==
    \/ /\ \E e \in Registrants : Register(e, PhoneOf(e), "Passw0rd!", "absent")
       /\ Keep
    \/ /\ \E e \in Registrants : Login(e, "Passw0rd!")
       /\ Keep
    \/ \E tok \in Presented : Refresh(tok)
    \/ \E id \in Ids \cup {RemovedId} : Logout(id)
    \/ \E h \in Headers : Authenticate(h)
    \/ /\ \E id \in Ids, a \in BOOLEAN : SetActive(id, a)
       /\ UNCHANGED sessions
    \/ /\ \E d \in {jwtExpiresIn, jwtRefreshExpiresIn} : Tick(d)
       /\ UNCHANGED sessions

SessionSpec == Init /\ [][SessionNext]_vars

---------------------------------------------------------------------------
(* Sessions of an account that is locked or whose password is reset, with  *)
(* the record of the JWTs that were held when the password changed         *)

\* the observer notes the JWTs the owner of the account holds when a
\* resetPassword has just succeeded
Outdate ==
    outdated' = IF last'.op = "resetPassword" /\ ~Failed(last'.out)
                THEN outdated \cup {tok \in held : tok.userId = last'.id}
                ELSE outdated

StillNext ==
    \/ /\ \E e \in Registrants : Register(e, PhoneOf(e), "Passw0rd!", "absent")
       /\ Keep
    \/ /\ \E e \in Registrants : Login(e, "Hunter22!")
       /\ Keep
    \/ \E tok \in held : Refresh(tok)
    \/ \E tok \in held : Authenticate(<<"Bearer", tok>>)
    \/ /\ \E e \in Registrants : ForgotPassword(e)
       /\ UNCHANGED sessions
    \/ /\ \E t \in 1..MaxTokens : ResetPassword(t, "Hunter22!")
       /\ Outdate
       /\ UNCHANGED <<spent, held, used, loggedOut>>
    \/ /\ \E d \in {lockTime, jwtExpiresIn} : Tick(d)
       /\ UNCHANGED sessions

StillSpec == Init /\ [][StillNext]_vars

---------------------------------------------------------------------------
(* Authorization by role: authorize(...roles) applied to a request that    *)
(* carries a user document or none                                         *)

\* the requests that reach authorize: req.user unset, or set to a stored user
Requests == {[path |-> "/"]} \cup {[path |-> "/", user |-> Load(db[i], {}).vals] : i \in Ids}

\* an authorize that lets every user through when no role is listed
authorize_emptyAllowsAll(roles, req) ==
    IF "user" \notin DOMAIN req
    THEN [next |-> 0, sent |-> 1, status |-> 401, error |-> Unauthenticated]
    ELSE IF roles # {} /\ req.user.role \notin roles
    THEN [next |-> 0, sent |-> 1, status |-> 403, error |-> Forbidden]
    ELSE [next |-> 1, sent |-> 0]

\* the middleware authorize(...roles) returns: what it did with the request
authorize(roles, req) ==
    IF "user" \notin DOMAIN req
    THEN [next |-> 0, sent |-> 1, status |-> 401, error |-> Unauthenticated]
    ELSE IF req.user.role \notin roles
    THEN [next |-> 0, sent |-> 1, status |-> 403, error |-> Forbidden]
    ELSE [next |-> 1, sent |-> 0]

\* a request passing through authorize(...roles)
Authorize(roles, req) ==
    /\ last' = [op |-> "authorize", roles |-> roles, req |-> req,
                out |-> authorize(roles, req)]
    /\ UNCHANGED <<db, now, ticks, nextToken, authServiceDef, env, proc, spent, wrongRun, reqs,
                   sessions>>

AuthzNext ==
    \/ /\ \E e \in Emails, p \in Phones, r \in RoleInputs : Register(e, p, "Passw0rd!", r)
       /\ UNCHANGED sessions
    \/ \E roles \in SUBSET Roles, req \in Requests : Authorize(roles, req)

AuthzSpec == Init /\ [][AuthzNext]_vars

---------------------------------------------------------------------------
(* Configuration: the process started in any environment                   *)

\* the environments a process can be started in: each secret set or not, and
\* the refresh secret possibly given the value of the access secret
Envs ==
    {[ConfiguredEnv EXCEPT !.JWT_SECRET = a, !.JWT_REFRESH_SECRET = r] :
        a \in {Unset, "JWT_SECRET"},
        r \in {Unset, "JWT_REFRESH_SECRET", "JWT_SECRET"}}

EnvInit == env \in Envs /\ Boot

\* what importing utils/tokenUtils.js evaluates: the constants it reads from env
tokenUtils ==
    [JWT_SECRET |-> env.JWT_SECRET, JWT_REFRESH_SECRET |-> env.JWT_REFRESH_SECRET]

\* the process starts: the modules are imported
Start ==
    /\ last.op = "none"
    /\ last' = [op |-> "start", out |-> tokenUtils]
    /\ UNCHANGED <<db, now, ticks, nextToken, authServiceDef, env, proc, spent, wrongRun,
                   reqs>>

\* requests are served once the modules are imported
Serving == last.op # "none"

EnvNext ==
    \/ Start /\ UNCHANGED sessions
    \/ /\ Serving
       /\ \E e \in Registrants : Register(e, PhoneOf(e), "Passw0rd!", "absent")
       /\ Keep
    \/ /\ Serving
       /\ \E e \in Registrants : Login(e, "Passw0rd!")
       /\ Keep
    \/ Serving /\ \E tok \in Presented : Refresh(tok)
    \/ Serving /\ \E h \in Headers : Authenticate(h)
    \/ Tick(jwtExpiresIn) /\ UNCHANGED sessions

EnvSpec == EnvInit /\ [][EnvNext]_vars

---------------------------------------------------------------------------
(* AuthController and the responses of the middleware: what the client is  *)
(* sent for a call and its outcome                                         *)

Response(status, body) == [status |-> status, body |-> body]

\* no response yet: the middleware called next(), or nothing was requested
NoResponse == [status |-> 0]

\* a forgotPassword body carrying the token wherever NODE_ENV is not production
forgotPasswordBody_nonProduction(out) ==
    IF env.NODE_ENV # "production" /\ "resetToken" \in DOMAIN out
    THEN [success |-> TRUE, message |-> out.message, resetToken |-> out.resetToken]
    ELSE [success |-> TRUE, message |-> out.message]

\* the body AuthController.forgotPassword sends for what the service returned
forgotPasswordBody(out) ==
    IF env.NODE_ENV = "development" /\ "resetToken" \in DOMAIN out
    THEN [success |-> TRUE, message |-> out.message, resetToken |-> out.resetToken]
    ELSE [success |-> TRUE, message |-> out.message]

\* the response to a call: the catch block of each controller method picks the
\* status, the middleware sends its own bodies
authController(call) ==
    LET out == call.out
        caught(status) == Response(status, [success |-> FALSE, error |-> out.error])
    IN CASE call.op = "register" ->
              IF Failed(out) THEN caught(400)
              ELSE Response(201, [success |-> TRUE, message |-> RegisterDone,
                                  data |-> [user |-> out.user,
                                            accessToken |-> out.accessToken]])
         [] call.op = "login" ->
              IF Failed(out) THEN caught(401)
              ELSE Response(200, [success |-> TRUE, message |-> LoginDone,
                                  data |-> [user |-> out.user,
                                            accessToken |-> out.accessToken]])
         [] call.op = "refresh" ->
              IF Failed(out) THEN caught(401)
              ELSE Response(200, [success |-> TRUE,
                                  data |-> [accessToken |-> out.accessToken]])
         [] call.op = "logout" ->
              IF Failed(out) THEN caught(500)
              ELSE Response(200, [success |-> TRUE, message |-> LogoutDone])
         [] call.op = "forgotPassword" ->
              IF Failed(out) THEN caught(400)
              ELSE Response(200, forgotPasswordBody(out))
         [] call.op = "resetPassword" ->
              IF Failed(out) THEN caught(400)
              ELSE Response(200, [success |-> TRUE, message |-> PasswordUpdated])
         [] call.op = "profile" ->
              IF Failed(out)
              THEN Response(401, IF out.error = TokenExpired
                                 THEN [error |-> out.error, code |-> "TOKEN_EXPIRED"]
                                 ELSE [error |-> out.error])
              ELSE Response(200, [success |-> TRUE, data |-> [user |-> out.user]])
         [] call.op \in {"authenticate", "authorize"} ->
              IF out.sent = 0 THEN NoResponse
              ELSE Response(out.status,
                            [f \in DOMAIN out \ {"next", "sent", "status"} |-> out[f]])
         [] OTHER -> NoResponse

\* a refreshToken cookie that is never marked secure
refreshCookie_neverSecure(token) ==
    [name |-> "refreshToken", value |-> token, httpOnly |-> TRUE, secure |-> FALSE,
     sameSite |-> "strict", maxAge |-> cookieMaxAge]

\* res.cookie('refreshToken', token, {...})
refreshCookie(token) ==
    [name |-> "refreshToken", value |-> token, httpOnly |-> TRUE,
     secure |-> (env.NODE_ENV = "production"), sameSite |-> "strict",
     maxAge |-> cookieMaxAge]

\* the cookies the response to a call sets: register, login and refreshToken
\* set the cookie once the service has returned, logout clears it
setCookies(call) ==
    IF Failed(call.out) THEN {}
    ELSE IF call.op \in {"register", "login", "refresh"}
    THEN {refreshCookie(call.out.refreshToken)}
    ELSE IF call.op = "logout" THEN {[name |-> "refreshToken", cleared |-> TRUE]}
    ELSE {}

\* POST /refresh-token that does not reach the service: the request carries no
\* token, or req.cookies is undefined because nothing parsed the cookies
RefreshRefused(error) ==
    /\ last' = [op |-> "refresh", out |-> Failure(error)]
    /\ UNCHANGED <<db, now, ticks, nextToken, authServiceDef, env, proc, spent, wrongRun,
                   reqs>>

\* the routes whose service method starts with a query outside any try block
Querying == {"register", "login", "forgotPassword", "resetPassword", "logout"}

\* a request made while the database cannot be reached: the first query of the
\* service method rejects and the error reaches the controller
QueryFails(op) ==
    /\ last' = [op |-> op, out |-> Failure(QueryTimeout)]
    /\ UNCHANGED <<db, now, ticks, nextToken, authServiceDef, env, proc, spent, wrongRun,
                   reqs>>

\* the values NODE_ENV is started with
Modes == {Unset, "development", "test", "production"}

HttpInit == env \in {[ConfiguredEnv EXCEPT !.NODE_ENV = m] : m \in Modes} /\ Boot

HttpNext ==
    \/ /\ \E e \in Registrants : Register(e, PhoneOf(e), "Passw0rd!", "absent")
       /\ Keep
    \/ /\ \E e \in Emails, pw \in Passwords : Login(e, pw)
       /\ Keep
    \/ (\E e \in Emails : ForgotPassword(e)) /\ UNCHANGED sessions
    \/ /\ \E t \in 1..MaxTokens : ResetPassword(t, "Hunter22!")
       /\ UNCHANGED <<sessions, spent>>
    \/ \E tok \in Presented : Refresh(tok)
    \/ \E id \in Ids \cup {RemovedId} : Logout(id)
    \/ \E h \in Headers : Authenticate(h)
    \/ \E roles \in SUBSET Roles, req \in Requests : Authorize(roles, req)
    \/ (\E op \in Querying : QueryFails(op)) /\ UNCHANGED sessions
    \/ /\ \E error \in {RefreshRequired, CookiesUndefined} : RefreshRefused(error)
       /\ UNCHANGED sessions
    \/ (\E id \in Ids, a \in BOOLEAN : SetActive(id, a)) /\ UNCHANGED sessions

HttpSpec == HttpInit /\ [][HttpNext]_vars

---------------------------------------------------------------------------
(* config/database.js: the shared connectionState, mongoose.connection and  *)
(* ensureConnection, each await as one step; proc counts the calls of       *)
(* mongoose.connect and the waits of the call of ensureConnection in course *)

\* what the connection module leaves alone
Accounts == <<db, now, ticks, nextToken, authServiceDef, env, spent, wrongRun, reqs, sessions>>

\* the message ensureConnection throws with
FailedToConnect == "Failed to connect after N attempts"

\* isConnected()
isConnected(p) == p.isConnected /\ p.readyState = 1

\* the condition of the while loop of ensureConnection
whileCondition(p) == ~isConnected(p) /\ p.retries < p.maxRetries

\* ensureConnection(maxRetries) is called
EnsureConnection(maxRetries) ==
    /\ proc.pc = "idle"
    /\ proc.exit = NoExit
    /\ proc' = [proc EXCEPT !.pc = "loop", !.maxRetries = maxRetries, !.retries = 0,
                            !.connects = 0, !.waits = 0, !.result = "none"]
    /\ UNCHANGED <<last, Accounts>>

\* the loop test, then connectDatabase() up to await mongoose.connect(...),
\* or the return after the loop
Loop ==
    /\ proc.pc = "loop"
    /\ proc' = IF whileCondition(proc)
               THEN IF proc.isConnected
                    THEN [proc EXCEPT !.pc = "returned", !.result = "undefined"]
                    ELSE IF proc.readyState = 1
                    THEN [proc EXCEPT !.isConnected = TRUE,
                                      !.pc = "returned", !.result = "undefined"]
                    ELSE [proc EXCEPT !.pc = "connecting", !.readyState = 2,
                                      !.connects = @ + 1]
               ELSE [proc EXCEPT !.pc = "returned",
                                 !.result = IF isConnected(proc) THEN "true" ELSE "false"]
    /\ UNCHANGED <<last, Accounts>>

\* mongoose.connect resolves: connectDatabase returns true, ensureConnection returns
ConnectOk ==
    /\ proc.pc = "connecting"
    /\ proc' = [proc EXCEPT !.isConnected = TRUE, !.readyState = 1,
                            !.pc = "returned", !.result = "undefined"]
    /\ UNCHANGED <<last, Accounts>>

\* mongoose.connect rejects: connectDatabase rethrows, the catch block of
\* ensureConnection counts the retry and throws or starts the wait of 2 seconds
ConnectFail ==
    /\ proc.pc = "connecting"
    /\ proc' = IF proc.retries + 1 >= proc.maxRetries
               THEN [proc EXCEPT !.readyState = 0, !.retries = @ + 1,
                                 !.pc = "thrown", !.result = FailedToConnect]
               ELSE [proc EXCEPT !.readyState = 0, !.retries = @ + 1,
                                 !.pc = "waiting", !.waits = @ + 1]
    /\ UNCHANGED <<last, Accounts>>

\* the timer of 2 seconds fires
Waited ==
    /\ proc.pc = "waiting"
    /\ proc' = [proc EXCEPT !.pc = "loop"]
    /\ UNCHANGED <<last, Accounts>>

\* the caller of ensureConnection goes on
Settled ==
    /\ proc.pc \in {"returned", "thrown"}
    /\ proc' = [proc EXCEPT !.pc = "idle"]
    /\ UNCHANGED <<last, Accounts>>

\* the connection to MongoDB is lost: mongoose notes it, connectionState does not
Lost ==
    /\ proc.readyState = 1
    /\ proc' = [proc EXCEPT !.readyState = 0]
    /\ UNCHANGED <<last, Accounts>>

\* disconnectDatabase(), mongoose.disconnect() resolving or rejecting
DisconnectDatabase ==
    /\ proc.pc = "idle"
    /\ IF ~proc.isConnected
       THEN /\ last' = [op |-> "disconnectDatabase", out |-> [returned |-> TRUE]]
            /\ UNCHANGED proc
       ELSE \/ /\ proc' = [proc EXCEPT !.isConnected = FALSE, !.readyState = 0]
               /\ last' = [op |-> "disconnectDatabase", out |-> [returned |-> TRUE]]
            \/ /\ last' = [op |-> "disconnectDatabase",
                            out |-> Failure("mongoose.disconnect failed")]
               /\ UNCHANGED proc
    /\ UNCHANGED Accounts

ConnNext ==
    \/ \E maxRetries \in 0..MaxRetries : EnsureConnection(maxRetries)
    \/ Loop
    \/ ConnectOk
    \/ ConnectFail
    \/ Waited
    \/ Settled
    \/ Lost
    \/ DisconnectDatabase

ConnSpec == Init /\ [][ConnNext]_vars

---------------------------------------------------------------------------
(* server.js: startServer, the middleware stack of the express app and the  *)
(* handler of SIGINT                                                        *)

\* ensureConnection(maxRetries = 5)
maxRetriesDefault == 5

\* routes/auth.js: the routes of the router; the protected ones pass through
\* authenticate first
router ==
    {[method |-> "POST", path |-> "/register", handler |-> "register"],
     [method |-> "POST", path |-> "/login", handler |-> "login"],
     [method |-> "POST", path |-> "/refresh-token", handler |-> "refreshToken"],
     [method |-> "POST", path |-> "/forgot-password", handler |-> "forgotPassword"],
     [method |-> "POST", path |-> "/reset-password", handler |-> "resetPassword"],
     [method |-> "GET", path |-> "/profile", handler |-> "getProfile"],
     [method |-> "POST", path |-> "/logout", handler |-> "logout"]}

\* the prefixes an auth router is mounted under, and the requests sent: a
\* path is the prefix and the rest, the body is JSON or is malformed
AuthNamespaces == {"/auth", "/api/auth"}
Methods == {"GET", "POST"}
Paths == {<<"", "/health">>, <<"", "/">>}
         \cup {<<ns, r.path>> : ns \in AuthNamespaces \cup {""}, r \in router}
Bodies == {"json", "malformed"}

\* the layers of the app in the order server.js adds them
stack ==
    <<"helmet", "cors", "morgan", "express.json", "express.urlencoded",
      "GET /health", "notFound", "errorHandler">>

\* express passing a request, or the error a layer gave to next, down the stack
RECURSIVE handle(_, _, _)
handle(req, i, err) ==
    IF i > Len(stack)
    THEN [status |-> IF err = "none" THEN 404 ELSE 500, by |-> "finalhandler",
          body |-> [error |-> err]]
    ELSE IF err # "none"
    THEN IF stack[i] = "errorHandler"
         THEN [status |-> 400, by |-> "errorHandler",
               body |-> IF env.NODE_ENV # "production"
                        THEN [error |-> err, stack |-> "stack"]
                        ELSE [error |-> err]]
         ELSE handle(req, i + 1, err)
    ELSE IF stack[i] = "express.json"
    THEN handle(req, i + 1, IF req.body = "malformed" THEN "SyntaxError" ELSE "none")
    ELSE IF stack[i] = "GET /health" /\ req.method = "GET" /\ req.path = <<"", "/health">>
    THEN [status |-> 200, by |-> "health", body |-> [status |-> "ok"]]
    ELSE IF stack[i] = "notFound"
    THEN [status |-> 404, by |-> "notFound", body |-> [error |-> "Not Found"]]
    ELSE handle(req, i + 1, "none")

\* the response of the app to a request
app(req) == handle(req, 1, "none")

\* startServer: await ensureConnection()
StartServer ==
    /\ proc.server = "none" /\ proc.result = "none"
    /\ EnsureConnection(maxRetriesDefault)

\* ensureConnection returned: app.listen, then process.on('SIGINT', ...)
Listen ==
    /\ proc.pc = "returned" /\ proc.server = "none"
    /\ proc' = [proc EXCEPT !.pc = "idle", !.server = "listening"]
    /\ UNCHANGED <<last, Accounts>>

\* ensureConnection threw: the catch block of startServer
StartFailed ==
    /\ proc.pc = "thrown"
    /\ proc' = [proc EXCEPT !.pc = "idle", !.exit = 1]
    /\ UNCHANGED <<last, Accounts>>

\* a request reaches the listening server
Request(req) ==
    /\ proc.server = "listening" /\ proc.exit = NoExit
    /\ last' = [op |-> "request", method |-> req.method, path |-> req.path,
                body |-> req.body, out |-> app(req)]
    /\ UNCHANGED <<proc, Accounts>>

\* SIGINT: the first statement of the handler names cosole, which is not
\* defined, so the async handler rejects with a ReferenceError before
\* disconnectDatabase; the rejection is handled nowhere, and the runtime ends
\* the process with code 1 or only warns, as its version has it
Sigint(exit) ==
    /\ proc.server = "listening" /\ proc.exit = NoExit
    /\ proc' = [proc EXCEPT !.signal = "rejected", !.exit = exit]
    /\ UNCHANGED <<last, Accounts>>

ServerNext ==
    \/ StartServer
    \/ Loop
    \/ ConnectOk
    \/ ConnectFail
    \/ Waited
    \/ Listen
    \/ StartFailed
    \/ \E m \in Methods, path \in Paths, b \in Bodies :
          Request([method |-> m, path |-> path, body |-> b])
    \/ \E exit \in {NoExit, 1} : Sigint(exit)

ServerSpec == HttpInit /\ [][ServerNext]_vars

---------------------------------------------------------------------------
(* Properties *)

\* the fields that must never reach a client
NeverSerialized ==
    {"password", "passwordResetToken", "passwordResetExpires", "lockUntil"}

\* C1: after 5 consecutive wrong-password logins on an active account (no
\* successful login or reset in between) the account holds a lock, and every
\* login before the lock elapses fails with AccountLocked, the correct password
\* included; each of the 5 wrong attempts fails with InvalidCredentials and the
\* 5th starts the lock.
C1_LockoutAfterFiveFailures ==
    [][\A e \in Emails, pw \in Passwords :
          LET id == FindActiveByEmail(e)
          IN (id # 0 /\ Login(e, pw)) =>
                LET wrong == db[id].password # bcryptHash(pw)
                IN /\ (wrong /\ wrongRun[id] < maxAttempts)
                        => last'.out = Failure(InvalidCredentials)
                   /\ (wrong /\ wrongRun[id] = maxAttempts - 1)
                        => db'[id].lockUntil = now + lockTime
                   /\ wrongRun[id] >= maxAttempts
                        => /\ db[id].lockUntil # NoTime
                           /\ now < db[id].lockUntil
                                => last'.out = Failure(AccountLocked)]_vars

\* a login with the correct password was refused as locked after 5 wrong attempts
C1_Witness ==
    /\ last.op = "login"
    /\ last.out = Failure(AccountLocked)
    /\ LET id == FindActiveByEmail(last.email)
       IN /\ id # 0
          /\ db[id].password = bcryptHash(last.password)
          /\ wrongRun[id] = maxAttempts

\* C2: a login on an account whose lock is in the future fails with
\* AccountLocked whatever the password and leaves the stored users unchanged
\* (loginAttempts, lockUntil and lastLogin included).
C2_LockedLoginRejected ==
    [][\A e \in Emails, pw \in Passwords :
          LET id == FindActiveByEmail(e)
          IN (/\ id # 0
              /\ db[id].lockUntil # NoTime
              /\ db[id].lockUntil > now
              /\ Login(e, pw))
             => /\ last'.out = Failure(AccountLocked)
                /\ db' = db]_vars

\* a login with a wrong password was refused as locked, the counters untouched
C2_Witness ==
    /\ last.op = "login"
    /\ last.out = Failure(AccountLocked)
    /\ LET id == FindActiveByEmail(last.email)
       IN /\ id # 0
          /\ db[id].password # bcryptHash(last.password)
          /\ db[id].loginAttempts = last.attempts
          /\ db[id].lockUntil > now

\* C3: a wrong-password login on an active, unlocked account stores
\* loginAttempts + 1, and stores lockUntil = now + 2 hours exactly when the new
\* count is at least 5; below the threshold no lock is stored.
C3_FailedLoginCounts ==
    [][\A e \in Emails, pw \in Passwords :
          LET id == FindActiveByEmail(e)
          IN (/\ id # 0
              /\ ~(db[id].lockUntil # NoTime /\ db[id].lockUntil > now)
              /\ db[id].password # bcryptHash(pw)
              /\ Login(e, pw))
             => /\ db'[id].loginAttempts = db[id].loginAttempts + 1
                /\ db'[id].lockUntil =
                      IF db[id].loginAttempts + 1 >= maxAttempts
                      THEN now + lockTime ELSE NoTime
                /\ last'.out = Failure(InvalidCredentials)]_vars

\* the 5th failure has just been stored together with the lock
C3_Witness ==
    /\ last.op = "login"
    /\ last.out = Failure(InvalidCredentials)
    /\ last.attempts = maxAttempts - 1
    /\ LET id == FindActiveByEmail(last.email)
       IN /\ id # 0
          /\ db[id].loginAttempts = maxAttempts
          /\ db[id].lockUntil = now + lockTime

\* C4: right after a successful login the stored account has loginAttempts 0,
\* no lockUntil and lastLogin equal to the time of the login.
C4_SuccessfulLoginResets ==
    [][\A e \in Emails, pw \in Passwords :
          (Login(e, pw) /\ ~Failed(last'.out))
          => LET id == last'.out.user.id
             IN /\ db'[id].loginAttempts = 0
                /\ db'[id].lockUntil = NoTime
                /\ db'[id].lastLogin = now]_vars

\* a login succeeded on an account that had 5 failures and an elapsed lock
C4_Witness ==
    /\ last.op = "login"
    /\ ~Failed(last.out)
    /\ last.attempts >= maxAttempts
    /\ db[last.out.user.id].loginAttempts = 0
    /\ db[last.out.user.id].lockUntil = NoTime
    /\ db[last.out.user.id].lastLogin = now

\* C5: no two stored users share an email and no two share a phone, also when
\* register requests interleave.
C5_UniqueEmailAndPhone ==
    \A i \in Ids, j \in Ids :
        i # j => db[i].email # db[j].email /\ db[i].phone # db[j].phone

\* C6: register with an email or a phone some stored user already has fails
\* with the duplicate error, returns no tokens and leaves the users unchanged.
C6_DuplicateRegisterRejected ==
    [][\A e \in Emails, p \in Phones, pw \in Passwords, r \in RoleInputs :
          (/\ \E i \in Ids : db[i].email = e \/ db[i].phone = p
           /\ Register(e, p, pw, r))
          => /\ DOMAIN last'.out = {"error"}
             /\ last'.out.error \in {EmailTaken, PhoneTaken}
             /\ db' = db]_vars

\* a register with a new email and a phone already in use was rejected
C6_Witness ==
    /\ last.op = "register"
    /\ last.out = Failure(PhoneTaken)
    /\ Len(db) = 1

\* C7: every user register creates has role citizen, whatever the body carries.
C7_RegisteredRoleIsCitizen ==
    \A i \in Ids : db[i].role = "citizen"

\* C8: the user object register, login and the profile endpoint return holds
\* none of the never-serialized fields.
C8_PublicUserHidesSecrets ==
    "user" \in DOMAIN last.out
        => DOMAIN last.out.user \cap NeverSerialized = {}

\* the profile of a user who holds a reset token and a password was returned
C8_Witness ==
    /\ last.op = "profile"
    /\ "user" \in DOMAIN last.out
    /\ db[last.out.user.id].passwordResetToken # NoHash

\* C9: serializing a user document removes every never-serialized field,
\* whatever paths the document was loaded with.
C9_ToJSONStripsSecrets ==
    \A i \in Ids, plus \in SUBSET SelectFalse :
        ToJSON(Load(db[i], plus)) \cap NeverSerialized = {}

\* C10: resetPassword with a token whose hash no user stores, or whose expiry
\* is not in the future, fails with InvalidOrExpiredToken and changes no user.
C10_BadResetTokenRejected ==
    [][\A t \in 1..MaxTokens, pw \in Passwords :
          (/\ \A i \in Ids : \/ db[i].passwordResetToken # hashToken(t)
                             \/ db[i].passwordResetExpires <= now
           /\ ResetPassword(t, pw))
          => /\ last'.out = Failure(InvalidOrExpiredToken)
             /\ db' = db]_vars

\* a reset with a stored token was rejected at the instant the token expired
C10_Witness ==
    /\ last.op = "resetPassword"
    /\ last.out = Failure(InvalidOrExpiredToken)
    /\ \E i \in Ids : /\ db[i].passwordResetToken = hashToken(last.token)
                      /\ db[i].passwordResetExpires = now

\* C11: a reset token is single-use: once resetPassword has succeeded with a
\* raw token, every later resetPassword with that token fails with
\* InvalidOrExpiredToken and changes no user, also before the token's expiry.
C11_ResetTokenSingleUse ==
    [][\A t \in 1..MaxTokens, pw \in Passwords :
          (t \in spent /\ ResetPassword(t, pw))
          => /\ last'.out = Failure(InvalidOrExpiredToken)
             /\ db' = db]_vars

\* a consumed token was replayed and refused before any time had passed
C11_Witness ==
    /\ last.op = "resetPassword"
    /\ last.token \in spent
    /\ last.out = Failure(InvalidOrExpiredToken)
    /\ ticks = 0

\* what a successful resetPassword leaves stored: the hash of the new
\* password, no failed attempts, no lock and no reset token
ResetLeavesClean ==
    \A t \in 1..MaxTokens, pw \in Passwords :
        (ResetPassword(t, pw) /\ ~Failed(last'.out))
        => \E id \in Ids :
              /\ db[id].passwordResetToken = <<"sha256", t>>
              /\ db'[id].password = bcryptHash(pw)
              /\ db'[id].loginAttempts = 0
              /\ db'[id].lockUntil = NoTime
              /\ db'[id].passwordResetToken = NoHash
              /\ db'[id].passwordResetExpires = NoTime

\* C12 as stated: after a successful resetPassword(token, newPassword) the
\* stored user has the new password, failedLoginCount 0, no lock and no
\* reset-token fields, and the next login with newPassword succeeds, also when
\* the account was locked before the reset, while a login with another
\* password (the old one) fails with InvalidCredentials.
C12_LoginAfterReset_AsStated ==
    [][/\ ResetLeavesClean
       /\ \A pw \in Passwords :
             (/\ last.op = "resetPassword"
              /\ ~Failed(last.out)
              /\ Login(db[last.id].email, pw))
             => IF pw = last.password
                THEN ~Failed(last'.out) /\ last'.out.user.id = last.id
                ELSE last'.out = Failure(InvalidCredentials)]_vars

\* C12, for the accounts login serves: after a successful resetPassword(token,
\* newPassword) the stored user has the new password, failedLoginCount 0, no
\* lock and no reset-token fields; if the user is active, the next login with
\* newPassword succeeds, also when the account was locked before the reset;
\* a login with another password (the old one) fails with InvalidCredentials.
C12_LoginAfterReset ==
    [][/\ ResetLeavesClean
       /\ \A pw \in Passwords :
             (/\ last.op = "resetPassword"
              /\ ~Failed(last.out)
              /\ Login(db[last.id].email, pw))
             => IF pw = last.password /\ db[last.id].isActive
                THEN ~Failed(last'.out) /\ last'.out.user.id = last.id
                ELSE last'.out = Failure(InvalidCredentials)]_vars

\* a reset has just succeeded on an active account that was locked: the lock
\* and the counter are gone and the new password is stored
C12_Witness ==
    /\ last.op = "resetPassword"
    /\ ~Failed(last.out)
    /\ last.locked
    /\ db[last.id].isActive
    /\ db[last.id].password = bcryptHash(last.password)
    /\ db[last.id].loginAttempts = 0
    /\ db[last.id].lockUntil = NoTime

\* C13: forgotPassword returns the same success message whether or not the
\* email matches an active user: any two calls, one after the other, return
\* the same message and differ at most by the resetToken field.
C13_ForgotSameMessage ==
    [][\A e \in Emails :
          (last.op = "forgotPassword" /\ ForgotPassword(e))
          => /\ last'.out.message = last.out.message
             /\ DOMAIN last'.out \subseteq {"message", "resetToken"}]_vars

\* C14: forgotPassword for the email of an active user stores the hash of a
\* new token (not the token) with the expiry now + 10 minutes on that user,
\* touches no other user and returns the token; for an email with no active
\* user it changes no user and returns no token; resetPassword accepts a
\* token only while now is strictly before the expiry stored with its hash.
C14_ForgotStoresHashAndExpiry ==
    [][/\ \A e \in Emails :
             ForgotPassword(e)
             => LET S == {i \in Ids : db[i].email = e /\ db[i].isActive}
                IN IF S = {}
                   THEN db' = db /\ "resetToken" \notin DOMAIN last'.out
                   ELSE /\ "resetToken" \in DOMAIN last'.out
                        /\ \E id \in S :
                              /\ db'[id].passwordResetToken =
                                    <<"sha256", last'.out.resetToken>>
                              /\ db'[id].passwordResetExpires = now + resetExpiry
                              /\ \A j \in Ids \ {id} : db'[j] = db[j]
       /\ \A t \in 1..MaxTokens, pw \in Passwords :
             (ResetPassword(t, pw) /\ ~Failed(last'.out))
             => \E i \in Ids : /\ db[i].passwordResetToken = <<"sha256", t>>
                               /\ now < db[i].passwordResetExpires]_vars

\* forgotPassword has just returned a token whose hash and expiry the user stores
C14_Witness ==
    /\ last.op = "forgotPassword"
    /\ "resetToken" \in DOMAIN last.out
    /\ \E i \in Ids : /\ db[i].email = last.email
                      /\ db[i].passwordResetToken = <<"sha256", last.out.resetToken>>
                      /\ db[i].passwordResetExpires = now + resetExpiry

\* C15: every stored user has the reset-token hash and the reset-token expiry
\* either both set or both absent, however the requests interleave.
C15_ResetFieldsPaired ==
    \A i \in Ids :
        (db[i].passwordResetToken = NoHash) <=> (db[i].passwordResetExpires = NoTime)

\* a resetPassword is about to save while its user already stores the token of
\* a forgotPassword that overtook it
C15_Witness ==
    \E s \in 1..MaxReqs :
        /\ reqs[s].pc = "resetSave"
        /\ db[reqs[s].id].passwordResetToken # NoHash
        /\ db[reqs[s].id].passwordResetToken # <<"sha256", reqs[s].token>>
        /\ db[reqs[s].id].passwordResetExpires # NoTime

\* C16: refresh fails with the one error InvalidRefreshToken whatever the
\* cause (a string that is no JWT, a token signed with another secret, an
\* expired token, a token of a user who no longer exists or is inactive), and a
\* failed refresh issues no token and changes no user.
C16_RefreshFailsUniformly ==
    [][(last'.op = "refresh" /\ Refresh(last'.token))
       => LET tok == last'.token
          IN /\ (\/ tok.secret # "JWT_REFRESH_SECRET"
                 \/ now >= tok.exp
                 \/ tok.userId \notin Ids
                 \/ ~db[tok.userId].isActive)
                => Failed(last'.out)
             /\ Failed(last'.out)
                => /\ last'.out = Failure(InvalidRefreshToken)
                   /\ held' = held
                   /\ db' = db]_vars

\* the second definition of AuthService has just refused the unexpired refresh
\* token of an inactive user
C16_Witness ==
    /\ last.op = "refresh"
    /\ last.out = Failure(InvalidRefreshToken)
    /\ authServiceDef = 2
    /\ last.token \in held
    /\ last.token.secret = "JWT_REFRESH_SECRET"
    /\ now < last.token.exp
    /\ ~db[last.token.userId].isActive

\* C17: refresh with an unexpired refresh token that register, login or
\* refresh issued, for a user who exists and is active, succeeds and returns a
\* new access token and refresh token of that same user.
C17_ValidRefreshSucceeds ==
    [][(/\ last'.op = "refresh"
        /\ last'.token \in held
        /\ last'.token.secret = "JWT_REFRESH_SECRET"
        /\ now < last'.token.exp
        /\ last'.token.userId \in Ids
        /\ db[last'.token.userId].isActive
        /\ Refresh(last'.token))
       => /\ ~Failed(last'.out)
          /\ last'.out.accessToken =
                [secret |-> "JWT_SECRET", userId |-> last'.token.userId,
                 exp |-> now + jwtExpiresIn]
          /\ last'.out.refreshToken =
                [secret |-> "JWT_REFRESH_SECRET", userId |-> last'.token.userId,
                 exp |-> now + jwtRefreshExpiresIn]]_vars

\* C18: a refresh token that a successful refresh was called with, or whose
\* owner has called logout since, is still accepted by refresh until its
\* expiry while the user exists and is active.
C18_RefreshTokensNeverRevoked ==
    [][(/\ last'.op = "refresh"
        /\ last'.token \in used \cup loggedOut
        /\ last'.token.secret = "JWT_REFRESH_SECRET"
        /\ now < last'.token.exp
        /\ last'.token.userId \in Ids
        /\ db[last'.token.userId].isActive
        /\ Refresh(last'.token))
       => /\ ~Failed(last'.out)
          /\ last'.out.refreshToken.userId = last'.token.userId]_vars

C20_AuthenticateAdmits ==
    [][(last'.op = "authenticate" /\ Authenticate(last'.header))
       => LET out == last'.out
              h == last'.header
          IN /\ \/ out.next = 1 /\ out.sent = 0
                \/ out.next = 0 /\ out.sent = 1 /\ out.status = 401
             /\ out.next = 1
                => /\ h[1] = "Bearer"
                   /\ h[2].secret = "JWT_SECRET"
                   /\ now < h[2].exp
                   /\ h[2].userId \in Ids
                   /\ db[h[2].userId].isActive
                   /\ out.user = Load(db[h[2].userId], {}).vals]_vars

\* a request with the access token of a refresh was handed to the handler
C20_Witness ==
    /\ last.op = "authenticate"
    /\ last.out.next = 1
    /\ last.header[1] = "Bearer"
    /\ last.header[2] \in held
    /\ used # {}

\* C21: authenticate classifies a request in this order: no header, or one
\* that does not start with 'Bearer ', gives MissingToken; an access token past
\* its expiry gives the expired answer with code TOKEN_EXPIRED, also when its
\* user is missing or inactive; any other token that does not verify gives
\* InvalidToken; a verified token of a missing or inactive user gives InvalidUser.
C21_AuthenticateFailureOrder ==
    [][(last'.op = "authenticate" /\ Authenticate(last'.header))
       => LET out == last'.out
              h == last'.header
          IN IF h[1] # "Bearer"
             THEN out.error = MissingToken /\ "code" \notin DOMAIN out
             ELSE IF h[2].secret # "JWT_SECRET"
             THEN out.error = InvalidToken /\ "code" \notin DOMAIN out
             ELSE IF now >= h[2].exp
             THEN out.error = TokenExpired /\ out.code = "TOKEN_EXPIRED"
             ELSE IF h[2].userId \notin Ids
             THEN out.error = InvalidUser /\ "code" \notin DOMAIN out
             ELSE ~db[h[2].userId].isActive
                  => out.error = InvalidUser /\ "code" \notin DOMAIN out]_vars

\* the expired access token of an inactive user was answered as expired
C21_Witness ==
    /\ last.op = "authenticate"
    /\ last.header[1] = "Bearer"
    /\ last.header[2] \in held
    /\ ~db[last.header[2].userId].isActive
    /\ "code" \in DOMAIN last.out
    /\ last.out.error = TokenExpired

\* C22: authorize built for the roles R calls the downstream handler exactly
\* when the request carries a user whose role is in R; without a user it
\* answers 401 Unauthenticated, and with a user whose role is not in R it
\* answers 403 Forbidden, which for the empty R is every user.
C22_AuthorizeByRole ==
    [][(last'.op = "authorize" /\ Authorize(last'.roles, last'.req))
       => LET out == last'.out
              req == last'.req
              R == last'.roles
          IN /\ out.next = 1 <=> ("user" \in DOMAIN req /\ req.user.role \in R)
             /\ out.next = 1 => out.sent = 0
             /\ "user" \notin DOMAIN req
                => /\ out.next = 0 /\ out.sent = 1
                   /\ out.status = 401 /\ out.error = Unauthenticated
             /\ ("user" \in DOMAIN req /\ req.user.role \notin R)
                => /\ out.next = 0 /\ out.sent = 1
                   /\ out.status = 403 /\ out.error = Forbidden]_vars

\* a stored user was refused by an authorize built for no role at all
C22_Witness ==
    /\ last.op = "authorize"
    /\ last.roles = {}
    /\ "user" \in DOMAIN last.req
    /\ last.req.user._id \in Ids
    /\ last.out.status = 403

\* what holds of an inactive user whatever the token: login with the stored
\* password fails with InvalidCredentials and writes nothing, refresh fails
\* with InvalidRefreshToken, no request is admitted, and no new token is
\* handed out for a stored user who is inactive
InactiveIsShutOut ==
    /\ (/\ last'.op = "login"
        /\ \E i \in Ids : db[i].email = last'.email /\ ~db[i].isActive
        /\ Login(last'.email, last'.password))
       => /\ last'.out = Failure(InvalidCredentials)
          /\ db' = db
    /\ (/\ last'.op = "refresh"
        /\ last'.token.userId \in Ids
        /\ ~db[last'.token.userId].isActive
        /\ Refresh(last'.token))
       => last'.out = Failure(InvalidRefreshToken)
    /\ (/\ last'.op = "authenticate"
        /\ last'.header[2].userId \in Ids
        /\ ~db[last'.header[2].userId].isActive
        /\ Authenticate(last'.header))
       => last'.out.next = 0 /\ last'.out.status = 401
    /\ \A tok \in held' \ held : tok.userId \in Ids => db[tok.userId].isActive

\* C23 as stated: while a user is inactive no token pair is issued for that
\* user and no request is admitted: login fails with InvalidCredentials also
\* with the right password and writes nothing, refresh fails with
\* InvalidRefreshToken, and authenticate answers every access token issued to
\* the user before with InvalidUser.
C23_InactiveShutOut_AsStated ==
    [][/\ InactiveIsShutOut
       /\ (/\ last'.op = "authenticate"
           /\ last'.header[1] = "Bearer"
           /\ last'.header[2] \in held
           /\ last'.header[2].secret = "JWT_SECRET"
           /\ ~db[last'.header[2].userId].isActive
           /\ Authenticate(last'.header))
          => last'.out.error = InvalidUser]_vars

\* C23, with the expiry taken into account: while a user is inactive no token
\* pair is issued for that user and no request is admitted: login fails with
\* InvalidCredentials also with the right password and writes nothing, refresh
\* fails with InvalidRefreshToken, and authenticate answers an access token
\* issued to the user before with InvalidUser if the token is unexpired.
C23_InactiveShutOut ==
    [][/\ InactiveIsShutOut
       /\ (/\ last'.op = "authenticate"
           /\ last'.header[1] = "Bearer"
           /\ last'.header[2] \in held
           /\ last'.header[2].secret = "JWT_SECRET"
           /\ now < last'.header[2].exp
           /\ ~db[last'.header[2].userId].isActive
           /\ Authenticate(last'.header))
          => last'.out.error = InvalidUser]_vars

\* a login with the stored password of an inactive user was refused, the
\* user's tokens still in circulation
C23_Witness ==
    /\ last.op = "login"
    /\ last.out = Failure(InvalidCredentials)
    /\ \E i \in Ids : /\ db[i].email = last.email
                      /\ ~db[i].isActive
                      /\ db[i].password = bcryptHash(last.password)
                      /\ db[i].loginAttempts = 0
                      /\ \E tok \in held : tok.userId = i /\ now < tok.exp

\* C24: with the access secret or the refresh secret unset the start fails
\* with ConfigurationError and no request is served: the process never starts
\* with an unset secret to fail only when a request signs or verifies a token.
C24_SecretsCheckedAtStartup ==
    [][(env.JWT_SECRET = Unset \/ env.JWT_REFRESH_SECRET = Unset)
       => /\ (last'.op = "start" /\ Start) => last'.out = Failure("ConfigurationError")
          /\ last'.op \in {"none", "start"}]_vars

ValidationErrors == {EmailTaken, PhoneTaken, InvalidOrExpiredToken}
AuthenticationErrors ==
    {InvalidCredentials, AccountLocked, InvalidRefreshToken, MissingToken,
     TokenExpired, InvalidToken, InvalidUser, Unauthenticated}

\* C26: every failure response has the status of its kind (400 for a
\* validation error, 401 for an authentication failure, 403 for a refused
\* role, 500 for a persistence error) and the body {success: false, error},
\* the responses of authenticate and authorize included.
C26_StatusByKind ==
    [][LET res == authController(last')
       IN (res # NoResponse /\ res.status >= 400)
          => /\ res.body = [success |-> FALSE, error |-> res.body.error]
             /\ res.body.error \in ValidationErrors => res.status = 400
             /\ res.body.error \in AuthenticationErrors => res.status = 401
             /\ res.body.error = Forbidden => res.status = 403
             /\ res.body.error = QueryTimeout => res.status = 500]_vars

\* C27: login with a password that matches no account of the email, and
\* forgotPassword, answer an email that has an account (active or not, locked
\* or not) with the status and message they answer an email without account:
\* 401 and InvalidCredentials for login, 200 and the generic message for
\* forgotPassword.
C27_EmailNotRevealed ==
    [][/\ (/\ last'.op = "login"
           /\ "email" \in DOMAIN last'
           /\ Login(last'.email, last'.password)
           /\ \A i \in Ids : db[i].email = last'.email
                                => db[i].password # bcryptHash(last'.password))
          => LET res == authController(last')
             IN res.status = 401 /\ res.body.error = InvalidCredentials
       /\ (/\ last'.op = "forgotPassword"
           /\ "email" \in DOMAIN last'
           /\ ForgotPassword(last'.email))
          => LET res == authController(last')
             IN res.status = 200 /\ res.body.message = GenericForgotMessage]_vars

\* C28 as stated: the response of /forgot-password carries the raw reset
\* token exactly when an active account matches the email and the environment
\* is not production.
C28_ResetTokenOutsideProduction ==
    [][(/\ last'.op = "forgotPassword"
        /\ "email" \in DOMAIN last'
        /\ ForgotPassword(last'.email))
       => LET res == authController(last')
              S == {i \in Ids : db[i].email = last'.email /\ db[i].isActive}
          IN ("resetToken" \in DOMAIN res.body)
                <=> (env.NODE_ENV # "production" /\ S # {})]_vars

\* C28, for the environment the controller tests: the response of
\* /forgot-password carries the raw reset token exactly when an active account
\* matches the email and NODE_ENV is set to development; it is then the token
\* whose hash the account stores. In production, in any other environment and
\* when no active account matches, the body is {success, message}.
C28_ResetTokenInDevelopment ==
    [][(/\ last'.op = "forgotPassword"
        /\ "email" \in DOMAIN last'
        /\ ForgotPassword(last'.email))
       => LET res == authController(last')
              S == {i \in Ids : db[i].email = last'.email /\ db[i].isActive}
          IN /\ res.status = 200
             /\ ("resetToken" \in DOMAIN res.body)
                   <=> (env.NODE_ENV = "development" /\ S # {})
             /\ IF "resetToken" \in DOMAIN res.body
                THEN /\ DOMAIN res.body = {"success", "message", "resetToken"}
                     /\ \E i \in S : db'[i].passwordResetToken
                                        = <<"sha256", res.body.resetToken>>
                ELSE DOMAIN res.body = {"success", "message"}]_vars

\* in development the response has just carried the token whose hash the
\* matching account stores
C28_Witness ==
    /\ env.NODE_ENV = "development"
    /\ last.op = "forgotPassword"
    /\ "resetToken" \in DOMAIN authController(last).body
    /\ \E i \in Ids : /\ db[i].email = last.email
                      /\ db[i].isActive
                      /\ db[i].passwordResetToken
                            = <<"sha256", authController(last).body.resetToken>>

\* C29: a login that fails on the password saves the counter of the copy it
\* loaded plus one, whatever the stored counter has become in the meantime
\* (the last save wins), and it locks the account by that value alone; the
\* stored counter never exceeds the number of wrong passwords compared unless
\* a save overtook a successful login.
C29_LoginLastWriteWins ==
    [][\A s \in 1..MaxReqs :
          (reqs[s].pc = "loginSave" /\ ~reqs[s].good /\ LoginSave(s))
          => LET id == reqs[s].id
                 loaded == reqs[s].doc.vals.loginAttempts - 1
             IN /\ db'[id].loginAttempts = loaded + 1
                /\ (loaded + 1 < maxAttempts) => db'[id].lockUntil = db[id].lockUntil
                /\ (loaded + 1 >= maxAttempts) => db'[id].lockUntil = now + lockTime
                /\ db[id].lastLogin = NoTime => db'[id].loginAttempts <= wrongRun'[id]]_vars

\* more than five wrong passwords were compared for an account that never
\* logged in, no request is in flight, and the account is not locked: its
\* stored counter is smaller than the number of failed attempts
C29_Witness ==
    \E i \in Ids :
        /\ wrongRun[i] > maxAttempts
        /\ db[i].lastLogin = NoTime
        /\ db[i].lockUntil = NoTime
        /\ db[i].loginAttempts < wrongRun[i]
        /\ \A s \in 1..MaxReqs : reqs[s].pc = "idle"

\* C30: the user object in the response of register, of login and of the
\* profile endpoint has exactly the fields id, name, email, phone, role,
\* isEmailVerified and lastLogin.
C30_UserObjectFields ==
    LET res == authController(last)
    IN (/\ res # NoResponse
        /\ "data" \in DOMAIN res.body
        /\ "user" \in DOMAIN res.body.data)
       => DOMAIN res.body.data.user
             = {"id", "name", "email", "phone", "role", "isEmailVerified", "lastLogin"}

\* C31: a successful register, login or refresh-token response sets one
\* cookie, refreshToken, holding the refresh token, http-only, same-site
\* strict, with a max age of 30 days and secure exactly in production; its
\* body carries the access token and not the refresh token. A failed
\* register, login or refresh-token request sets no cookie.
C31_RefreshTokenInCookieOnly ==
    last.op \in {"register", "login", "refresh"}
    => LET res == authController(last)
       IN IF res.status < 400
          THEN /\ setCookies(last)
                     = {[name |-> "refreshToken", value |-> last.out.refreshToken,
                         httpOnly |-> TRUE, sameSite |-> "strict", maxAge |-> 4320,
                         secure |-> (env.NODE_ENV = "production")]}
               /\ res.body.data.accessToken = last.out.accessToken
               /\ "refreshToken" \notin DOMAIN res.body \cup DOMAIN res.body.data
               /\ \A f \in DOMAIN res.body.data :
                     res.body.data[f] # last.out.refreshToken
          ELSE setCookies(last) = {}

\* in production a login has just succeeded: the cookie is secure and holds
\* the refresh token, the body holds the access token
C31_Witness ==
    /\ env.NODE_ENV = "production"
    /\ last.op = "login"
    /\ authController(last).status = 200
    /\ \E c \in setCookies(last) : c.secure /\ c.value = last.out.refreshToken
    /\ authController(last).body.data.accessToken = last.out.accessToken


\* C32: of two concurrent resetPassword requests that carry the same valid
\* unexpired token at most one succeeds: a resetPassword that succeeds carries
\* a token that no resetPassword has consumed before
C32_TokenConsumedOnce ==
    [][\A s \in 1..MaxReqs :
          (reqs[s].pc = "resetSave" /\ reqs'[s].pc = "idle")
          => reqs[s].token \notin spent]_vars


\* an account whose lock has elapsed: lockUntil is stored and is not in the future
LockElapsed(id) == db[id].lockUntil # NoTime /\ db[id].lockUntil <= now

\* C33: an account with a stored lock, elapsed or not, has loginAttempts >= 5
\* (the passing of time leaves the count alone), and the first wrong-password
\* login after the lock has elapsed counts one more, beyond 5, and sets a new
\* lock of 2 hours at once
C33_CountKeptWhenLockElapses ==
    [][/\ \A id \in DOMAIN db' :
             db'[id].lockUntil # NoTime => db'[id].loginAttempts >= maxAttempts
       /\ (now' # now => db' = db)
       /\ (last'.op = "login" /\ Login(last'.email, last'.password))
          => LET id == FindActiveByEmail(last'.email)
             IN (id # 0 /\ LockElapsed(id) /\ last'.out = Failure(InvalidCredentials))
                => /\ db'[id].loginAttempts = db[id].loginAttempts + 1
                   /\ db'[id].loginAttempts > maxAttempts
                   /\ db'[id].lockUntil = now + lockTime]_vars

\* a wrong password after the lock elapsed has just been answered: the count is
\* beyond 5 and a new lock runs from now
C33_Witness ==
    /\ last.op = "login" /\ last.out = Failure(InvalidCredentials)
    /\ now >= lockTime
    /\ \E id \in Ids : /\ db[id].email = last.email
                       /\ last.attempts >= maxAttempts
                       /\ db[id].loginAttempts > maxAttempts
                       /\ db[id].lockUntil = now + lockTime


\* the account a JWT names exists, is active and is locked now
LockedOwner(tok) ==
    /\ FindById(tok.userId) # 0
    /\ db[tok.userId].isActive
    /\ isLocked(db[tok.userId], now)

\* C34: while an account is locked, authenticate admits its unexpired access
\* token, refresh with its unexpired refresh token returns a new token pair,
\* and forgotPassword stores and returns a reset token for it
C34_LockoutRestrictsLoginOnly ==
    [][/\ (last'.op = "authenticate" /\ Authenticate(last'.header))
          => LET tok == last'.header[2]
             IN (tok.secret = env.JWT_SECRET /\ now < tok.exp /\ LockedOwner(tok))
                => last'.out.next = 1
       /\ (last'.op = "refresh" /\ Refresh(last'.token))
          => LET tok == last'.token
             IN (tok.secret = env.JWT_REFRESH_SECRET /\ now < tok.exp /\ LockedOwner(tok))
                => /\ ~Failed(last'.out)
                   /\ {"accessToken", "refreshToken"} \subseteq DOMAIN last'.out
       /\ (last'.op = "forgotPassword" /\ ForgotPassword(last'.email))
          => LET id == FindActiveByEmail(last'.email)
             IN (id # 0 /\ isLocked(db[id], now))
                => /\ last'.out.message = TokenSentMessage
                   /\ db'[id].passwordResetToken = hashToken(last'.out.resetToken)
                   /\ db'[id].passwordResetExpires = now + resetExpiry]_vars


\* C35: a successful resetPassword revokes no session: an access token and a
\* refresh token issued before the password changed are accepted by
\* authenticate and by refresh as long as they have not expired
C35_ResetKeepsSessions ==
    [][/\ (last'.op = "authenticate" /\ Authenticate(last'.header))
          => LET tok == last'.header[2]
             IN (/\ tok \in outdated /\ tok.secret = env.JWT_SECRET /\ now < tok.exp
                 /\ db[tok.userId].isActive)
                => last'.out.next = 1
       /\ (last'.op = "refresh" /\ Refresh(last'.token))
          => LET tok == last'.token
             IN (/\ tok \in outdated /\ tok.secret = env.JWT_REFRESH_SECRET
                 /\ now < tok.exp /\ db[tok.userId].isActive)
                => /\ ~Failed(last'.out)
                   /\ {"accessToken", "refreshToken"} \subseteq DOMAIN last'.out]_vars


\* C36: the stored password of a user is always the hash of a password that
\* was given; it changes only in a successful resetPassword, to the hash of the
\* new password, a user is created only by a successful register, and login,
\* refresh, logout and forgotPassword leave every stored password as it was, a
\* successful login being one with the password that is stored
C36_PasswordChangesOnlyInRegisterAndReset ==
    [][/\ \A id \in DOMAIN db' : \E pw \in Passwords : db'[id].password = bcryptHash(pw)
       /\ \A id \in DOMAIN db :
             db'[id].password # db[id].password
             => /\ last'.op = "resetPassword" /\ ~Failed(last'.out)
                /\ last'.id = id
                /\ db'[id].password = bcryptHash(last'.password)
       /\ DOMAIN db' # DOMAIN db => last'.op = "register" /\ ~Failed(last'.out)
       /\ last'.op \in {"login", "refresh", "logout", "forgotPassword"}
          => \A id \in DOMAIN db : db'[id].password = db[id].password
       /\ (last'.op = "login" /\ ~Failed(last'.out))
          => \E id \in DOMAIN db' : /\ db'[id].email = last'.email
                                    /\ db'[id].password = bcryptHash(last'.password)]_vars

\* a login with the password of the latest reset has just succeeded
C36_Witness ==
    /\ last.op = "login" /\ ~Failed(last.out)
    /\ last.password = "Hunter22!"
    /\ \E id \in Ids : db[id].email = last.email /\ db[id].password = bcryptHash("Hunter22!")


\* C38: ensureConnection(maxRetries) calls mongoose.connect at most maxRetries
\* times, waits 2 seconds after each failed attempt but the last, throws
\* FailedToConnect only when maxRetries attempts were made and all failed, and
\* at every return without a throw isConnected() is true
C38_EnsureConnection ==
    [][/\ proc'.connects <= proc'.maxRetries
       /\ proc'.connects <= proc'.waits + 1
       /\ proc'.waits = IF proc'.result = FailedToConnect THEN proc'.retries - 1
                        ELSE proc'.retries
       /\ proc'.pc = "thrown"
          => /\ proc'.result = FailedToConnect
             /\ proc'.retries = proc'.maxRetries
             /\ proc'.connects = proc'.maxRetries
       /\ (proc.pc # "returned" /\ proc'.pc = "returned") => isConnected(proc')]_vars


\* C37: a well-formed request with the method and the path of a route of the
\* auth router, under an auth namespace, is not answered by the 404 fallback
C37_AuthRoutesServed ==
    (/\ last.op = "request" /\ last.body = "json"
     /\ last.path[1] \in AuthNamespaces
     /\ \E r \in router : r.method = last.method /\ r.path = last.path[2])
    => last.out.by # "notFound" /\ last.out.status # 404

\* C39: when the handler of SIGINT has run to its end, the database is
\* disconnected, the HTTP server is closed and the process has exited with 0
C39_SigintShutsDown ==
    proc.signal \in {"exited", "rejected"}
    => /\ proc.signal = "exited"
       /\ ~proc.isConnected
       /\ proc.server = "closed"
       /\ proc.exit = 0

====
